---- MODULE Spec2Model ----
(***************************************************************************)
(* Model of the clustering engine MeanShift (src/indexing/algorithms.py):  *)
(* the memoized distance evaluator, the medoid selector and its worker     *)
(* pool, the farthest-point selection, fit() and fit_leader_algorithm().   *)
(*                                                                         *)
(* A graph is represented by its identifier (get_path()), a number in      *)
(* 1..MaxGraphs.  Python list indices are kept 0-based: the element at     *)
(* Python index i of a list s is s[i+1] here.  Distances are naturals.     *)
(***************************************************************************)
EXTENDS Integers, Sequences, FiniteSets, TLC

\* ------------------------------------------------------------------ bounds
MaxGraphs == 3      \* number of graphs handed to the engine
MaxDist   == 2      \* largest value the wrapped metric returns
MaxIter   == 2      \* largest max_iter passed to fit()
MaxRuns   == 2      \* clustering runs started on the engine
MaxCalls  == 3      \* evaluator calls made by the driver
NWorkers  == 2      \* processes of the worker pool
MaxVerts  == 2      \* vertices of a graph handed to a metric function
MaxLoaded == 1      \* centroids in a list load_centroids() reads

Graphs == 1..MaxGraphs
Dist   == 0..MaxDist
Pairs(n) == (1..n) \X (1..n)

VARIABLES
    graphs,         \* self._graphs: sequence of graph identifiers
    threshold,      \* self._threshold
    metric,         \* distance_function: value for each ordered pair
    bad,            \* ordered pairs on which distance_function raises
    cls_cache,      \* MeanShift._distances_cache, the class attribute dict
    cls_centroids,  \* MeanShift._centroids, the class attribute list
    cache_own,      \* the engine has an instance attribute _distances_cache
    inst_cache,     \* ... and its content
    centroids_own,  \* the engine has an instance attribute _centroids
    inst_centroids, \* ... and its content
    pc,             \* position of the engine: idle; outer, inner, medoid,
                    \* done, failed (fit); leader_done, leader_failed
    s,              \* fit(): the working pool
    prototype,      \* fit(): prototype_graph
    cluster,        \* fit(): cluster.get_graphs()
    iterations,     \* fit(): iterations
    max_iter,       \* fit(): max_iter
    clusters,       \* fit_leader_algorithm(): clusters
    runs,           \* number of runs started so far
    removed,        \* history: the clusters removed from s in this run
    stats,          \* history: medoid / evaluator calls of this run
    far,            \* history: the last farthest() call of this run
    hist,           \* history: the graphs fit_leader_algorithm() processed,
                    \* the median_graph calls on an empty list in this run,
                    \* the result of the run before this one
    ret,            \* the last driver call of the evaluator: arguments, value
    calls,          \* call counter of the wrapped metric
    seen,           \* history: pairs the driver evaluated, with the value
    ppc,            \* worker pool: closed, open, joined, failed
    pool_s,         \* worker pool: the sequence handed to median_graph
    wcache,         \* worker pool: the cache of each worker process
    results,        \* worker pool: result of each finished task
    pool_result,    \* worker pool: index returned by median_graph
    taken,          \* worker pool: the worker each task was handed to
    graph1,         \* metric call: the first argument
    graph2,         \* metric call: the second argument
    score           \* metric call: the function called and its outcome

engineVars == <<graphs, threshold, metric, bad>>
heapVars   == <<cls_cache, cls_centroids, cache_own, inst_cache,
                centroids_own, inst_centroids>>
fitVars    == <<pc, s, prototype, cluster, iterations, max_iter, clusters, runs,
                removed, stats, far, hist>>
evalVars   == <<ret, calls, seen>>
poolVars   == <<ppc, pool_s, wcache, results, pool_result, taken>>
metricVars == <<graph1, graph2, score>>
vars == <<graphs, threshold, metric, bad, cls_cache, cls_centroids, cache_own,
          inst_cache, centroids_own, inst_centroids, pc, s, prototype,
          cluster, iterations, max_iter, clusters, runs, removed, stats, far,
          hist, ret,
          calls, seen, ppc, pool_s, wcache, results, pool_result, taken,
          graph1, graph2, score>>

\* ----------------------------------------------------------------- helpers
None == 0           \* no graph / no value (identifiers start at 1)

\* A dict keyed by pairs of identifiers is a function on all pairs that maps
\* the keys the dict does not hold to Absent.
Absent == -1
EmptyCache == [k \in Pairs(MaxGraphs) |-> Absent]      \* the dict {}
Has(c, k) == c[k] # Absent                             \* k in c
Put(c, k, v) == [c EXCEPT ![k] = v]                    \* c[k] = v

Range(q) == {q[i] : i \in 1..Len(q)}

\* s[i] of Python, negative indices counting from the end
PyIndex(q, i) == IF i < 0 THEN q[Len(q) + i + 1] ELSE q[i + 1]

\* the identity sequence <<1, ..., n>>
Iota(n) == [i \in 1..n |-> i]

\* metrics of the library are symmetric and score a graph against itself 0
UPairs(n) == {p \in Pairs(n) : p[1] < p[2]}
SymmetricMetrics(n) ==
    {[p \in Pairs(n) |-> IF p[1] = p[2] THEN 0
                         ELSE IF p[1] < p[2] THEN u[p] ELSE u[<<p[2], p[1]>>]] :
        u \in [UPairs(n) -> Dist]}

\* euclidean_distance and manhattan_distance loop over the vertices of their
\* first argument and index the second: on graphs with vc[g] vertices they
\* raise exactly on the pairs whose first graph has more vertices
RaisesByCount(n) ==
    {{p \in Pairs(n) : vc[p[1]] > vc[p[2]]} : vc \in [1..n -> 0..MaxVerts]}

\* any other distance_function handed to __init__: it raises on one pair in
\* one argument order, or on one pair in both orders
RaisesOnPair(n) ==
    {{<<a, b>>} : a, b \in 1..n} \cup {{<<a, b>>, <<b, a>>} : a, b \in 1..n}

\* the sets of ordered pairs on which the wrapped metric raises
BadSets(n) == RaisesByCount(n) \cup RaisesOnPair(n)

\* ------------------------------------------------- engine attribute lookup
\* self._distances_cache: the instance attribute when __init__ was given a
\* distance_cache, the class attribute otherwise
Cache == IF cache_own THEN inst_cache ELSE cls_cache

\* self._centroids, and get_centroids()
get_centroids == IF centroids_own THEN inst_centroids ELSE cls_centroids

\* the same attributes seen from a second engine constructed without a
\* pre-seeded cache and never operated: both resolve to the class attributes
other_get_centroids == cls_centroids
other_cache == cls_cache

\* ------------------------------------------------------ memoized evaluator
\* the lookup key of optimized_distance: (g1.get_path(), g2.get_path())
LookupKey(g1, g2) == <<g1, g2>>

\* optimized_distance(g1, g2) run against cache c.  ok = FALSE: the wrapped
\* metric raised.  calls: invocations of the wrapped metric.
optimized_distance(c, g1, g2) ==
    IF Has(c, LookupKey(g1, g2))
    THEN [ok |-> TRUE, val |-> c[LookupKey(g1, g2)], cache |-> c, calls |-> 0]
    ELSE IF <<g1, g2>> \in bad
    THEN [ok |-> FALSE, val |-> None, cache |-> c, calls |-> 1]
    ELSE LET dist == metric[<<g1, g2>>]
         IN  [ok |-> TRUE, val |-> dist,
              cache |-> Put(Put(c, <<g2, g1>>, dist), <<g1, g2>>, dist),
              calls |-> 1]

\* ---------------------------------------------------------- medoid selector
\* calculate_distance((i, s)), the loop "for j in range(n)" from j on with
\* distances_sum = acc, run against the cache c of the process executing it
RECURSIVE CalcFrom(_, _, _, _, _)
CalcFrom(c, i, q, j, acc) ==
    IF j >= Len(q) THEN [ok |-> TRUE, i |-> i, sum |-> acc, cache |-> c]
    ELSE IF i = j THEN CalcFrom(c, i, q, j + 1, acc)
    ELSE LET r == optimized_distance(c, PyIndex(q, i), PyIndex(q, j))
         IN  IF ~r.ok
             THEN [ok |-> FALSE, i |-> i, sum |-> acc, cache |-> r.cache]
             ELSE CalcFrom(r.cache, i, q, j + 1, acc + r.val)

calculate_distance(c, i, q) == CalcFrom(c, i, q, 0, 0)

\* (faulty variant, to test C4: max() instead of min())
MinBySum_Max(sums, n) ==
    CHOOSE i \in 0..(n - 1) : \A j \in 0..(n - 1) : sums[i] >= sums[j]

\* min(results, key=lambda x: x[1]) over results listed by index 0..n-1: the
\* first index whose sum is minimal
MinBySum(sums, n) ==
    CHOOSE i \in 0..(n - 1) :
        /\ \A j \in 0..(n - 1) : sums[i] <= sums[j]
        /\ \A j \in 0..(i - 1) : sums[j] > sums[i]

\* the ways the pool can hand n tasks to its worker processes: the tasks are
\* taken from the queue in index order, task 0 by the first worker to ask
Schedules(n) ==
    {a \in [0..(n - 1) -> 1..NWorkers] : n = 0 \/ a[0] = 1}

\* the tasks from index i on, run in index order, task j in worker a[j]
\* against that process's copy wc[a[j]] of the cache, which keeps what the
\* worker's earlier tasks memoized; res: the results so far
RECURSIVE RunTasks(_, _, _, _, _)
RunTasks(wc, q, a, i, res) ==
    IF i >= Len(q) THEN res
    ELSE LET r == calculate_distance(wc[a[i]], i, q)
         IN  RunTasks([wc EXCEPT ![a[i]] = r.cache], q, a, i + 1,
                      Append(res, r))

\* median_graph(s) called while the engine's cache is c and the pool hands
\* out the tasks as in a.  Every worker process starts with a copy of the
\* cache; executor.map returns the results in index order and re-raises a
\* task's exception; min() of an empty list raises.
median_graph(c, q, a) ==
    LET n == Len(q)
        res == RunTasks([w \in 1..NWorkers |-> c], q, a, 0, <<>>)
    IN  IF n = 0 \/ \E i \in 1..n : ~res[i].ok
        THEN [ok |-> FALSE, idx |-> -1]
        ELSE [ok |-> TRUE,
              idx |-> MinBySum([i \in 0..(n - 1) |-> res[i + 1].sum], n)]

\* ------------------------------------------------- farthest-point selection
\* current_distance := self._distance(s[seed], s[i]) > distance
\* binds the name to the comparison, a bool, which compares as 1 or 0
Walrus(d, distance) == IF d > distance THEN 1 ELSE 0

\* farthest(s, seed), the loop "for i in range(n)" from i on
RECURSIVE FarFrom(_, _, _, _, _, _, _)
FarFrom(c, q, seed, i, idx, distance, evals) ==
    IF i >= Len(q)
    THEN [ok |-> TRUE, idx |-> idx, cache |-> c, evals |-> evals]
    ELSE LET r == optimized_distance(c, PyIndex(q, seed), PyIndex(q, i))
         IN  IF ~r.ok
             THEN [ok |-> FALSE, idx |-> idx, cache |-> r.cache,
                   evals |-> evals + 1]
             ELSE LET current_distance == Walrus(r.val, distance)
                  IN  IF current_distance # 0
                      THEN FarFrom(r.cache, q, seed, i + 1, i,
                                   current_distance, evals + 1)
                      ELSE FarFrom(r.cache, q, seed, i + 1, idx, distance,
                                   evals + 1)

farthest(c, q, seed) == FarFrom(c, q, seed, 0, -1, -1, 0)

\* -------------------------------------------------------------------- Cluster
\* graph.essential.Cluster: a centroid and the list get_graphs() returns, of
\* which the centroid is the first element
Cluster == [centroid |-> None, graphs |-> <<>>]
set_centroid(cl, g) == [centroid |-> g, graphs |-> Append(cl.graphs, g)]
add_graph(cl, g) == [cl EXCEPT !.graphs = Append(cl.graphs, g)]
get_graphs(cl) == cl.graphs
get_centroid(cl) == cl.centroid

\* ---------------------------------------------------- fit(): cluster building
\* (faulty variant, to test C2: a graph at exactly the threshold is rejected)
TooFar_Strict(d) == d >= threshold

\* the admission test of line 112: distance > self._threshold
TooFar(d) == d > threshold

\* (faulty variant, to test C17: only the k-th member is compared)
IsMemberFrom_PrototypeOnly(c, g, members, k, evals) ==
    IF k > Len(members)
    THEN [ok |-> TRUE, member |-> TRUE, cache |-> c, evals |-> evals]
    ELSE LET r == optimized_distance(c, g, members[k])
         IN  [ok |-> r.ok, member |-> r.ok /\ ~TooFar(r.val),
              cache |-> r.cache, evals |-> evals + 1]

\* "for cluster_member_graph in cluster.get_graphs()" from member k on:
\* member = is_cluster_member when the loop ends or breaks
RECURSIVE IsMemberFrom(_, _, _, _, _)
IsMemberFrom(c, g, members, k, evals) ==
    IF k > Len(members)
    THEN [ok |-> TRUE, member |-> TRUE, cache |-> c, evals |-> evals]
    ELSE LET r == optimized_distance(c, g, members[k])
         IN  IF ~r.ok
             THEN [ok |-> FALSE, member |-> FALSE, cache |-> r.cache,
                   evals |-> evals + 1]
             ELSE IF TooFar(r.val)
             THEN [ok |-> TRUE, member |-> FALSE, cache |-> r.cache,
                   evals |-> evals + 1]
             ELSE IsMemberFrom(r.cache, g, members, k + 1, evals + 1)

\* "for graph in s" from the i-th graph on (lines 105-117)
RECURSIVE BuildFrom(_, _, _, _, _, _)
BuildFrom(c, q, p, cl, i, evals) ==
    IF i > Len(q)
    THEN [ok |-> TRUE, cluster |-> cl, cache |-> c, evals |-> evals]
    ELSE IF q[i] = p THEN BuildFrom(c, q, p, cl, i + 1, evals)
    ELSE LET m == IsMemberFrom(c, q[i], get_graphs(cl), 1, evals)
         IN  IF ~m.ok
             THEN [ok |-> FALSE, cluster |-> cl, cache |-> m.cache,
                   evals |-> m.evals]
             ELSE BuildFrom(m.cache, q, p,
                            IF m.member THEN add_graph(cl, q[i]) ELSE cl,
                            i + 1, m.evals)

BuildCluster(c, q, p, cl) == BuildFrom(c, q, p, cl, 1, 0)

\* (faulty variant, to test C1: only the centroid leaves the pool)
RemoveMembers_CentroidOnly(q, cluster_graphs) ==
    SelectSeq(q, LAMBDA g : g # cluster_graphs[1])

\* s = [g for g in s if g.get_path() not in {u.get_path() for u in cluster_graphs}]
RemoveMembers(q, cluster_graphs) ==
    SelectSeq(q, LAMBDA g : g \notin Range(cluster_graphs))

\* (faulty variant, to test C18: the bound is passed by one iteration)
Finalise_Late(new_prototype, proto, iters, mi) ==
    new_prototype = proto \/ iters > mi

\* (faulty variant, to test C9: the iteration bound is not tested)
Finalise_NoBound(new_prototype, proto, iters, mi) == new_prototype = proto

\* the test that ends the inner loop (line 126)
Finalise(new_prototype, proto, iters, mi) ==
    new_prototype = proto \/ iters >= mi

\* ------------------------------------------------------------ initial values
\* no completed run precedes this one
NoRun == [kind |-> "none", mi |-> 0, centroids |-> <<>>]

\* fit() locals before any run, and the history variables
FitIdle ==
    /\ pc = "idle" /\ s = <<>> /\ prototype = None /\ cluster = <<>>
    /\ iterations = 0 /\ max_iter = 0 /\ clusters = <<>> /\ runs = 0
    /\ removed = <<>> /\ stats = [medoids |-> 0, evals |-> 0]
    /\ far = [called |-> FALSE, s |-> <<>>, seed |-> 0, idx |-> 0]
    /\ hist = [processed |-> <<>>, empty_medoid |-> 0, prev |-> NoRun]

EvalIdle ==
    /\ ret = [g1 |-> None, g2 |-> None, val |-> None, ok |-> TRUE]
    /\ calls = 0 /\ seen = EmptyCache

PoolIdle ==
    /\ ppc = "closed" /\ pool_s = <<>> /\ wcache = [w \in 1..NWorkers |-> EmptyCache]
    /\ results = <<>> /\ pool_result = None /\ taken = <<>>

\* every partial mapping from ordered pairs of 1..n to distances: the dicts
\* that can be handed to __init__ as distance_cache
AnyCache(n) ==
    {c \in [Pairs(MaxGraphs) -> Dist \cup {Absent}] :
        \A k \in Pairs(MaxGraphs) \ Pairs(n) : c[k] = Absent}

\* no metric call is under study
NoGraph == [vertexes |-> <<>>, edges |-> {}]
MetricIdle ==
    /\ graph1 = NoGraph /\ graph2 = NoGraph
    /\ score = [fn |-> "none", kind |-> "none", val |-> 0]

\* ------------------------------------------- the evaluator called by a driver
\* MeanShift(graphs, threshold, distance_function, distance_cache) with any
\* distance_cache dict: the state after __init__
InitEval ==
    /\ graphs = Iota(2)
    /\ threshold \in {1}
    /\ metric \in SymmetricMetrics(2)
    /\ bad \in BadSets(2)
    /\ cls_cache = EmptyCache /\ cls_centroids = <<>>
    /\ cache_own = TRUE /\ inst_cache \in AnyCache(2)
    /\ centroids_own = FALSE /\ inst_centroids = <<>>
    /\ FitIdle /\ EvalIdle /\ PoolIdle /\ MetricIdle

\* the unordered pair of identifiers, as the key of the history
Unordered(a, b) == IF a <= b THEN <<a, b>> ELSE <<b, a>>

\* one call self._distance(A, B) made from the orchestrating thread; when
\* the wrapped metric raises (ok = FALSE) the cache is left as it was
Evaluate(a, b) ==
    /\ pc = "idle"
    /\ calls < MaxCalls
    /\ LET r == optimized_distance(Cache, a, b)
       IN  /\ ret' = [g1 |-> a, g2 |-> b, val |-> r.val, ok |-> r.ok]
           /\ calls' = calls + r.calls
           /\ IF cache_own
              THEN inst_cache' = r.cache /\ cls_cache' = cls_cache
              ELSE cls_cache' = r.cache /\ inst_cache' = inst_cache
           /\ seen' = IF ~r.ok \/ Has(seen, Unordered(a, b)) THEN seen
                      ELSE Put(seen, Unordered(a, b), r.val)
    /\ UNCHANGED <<metricVars, engineVars, cls_centroids, cache_own, centroids_own,
                   inst_centroids, fitVars, poolVars>>

NextEval == \E a, b \in Range(graphs) : Evaluate(a, b)

SpecEval == InitEval /\ [][NextEval]_vars

\* ------------------------------------------------------------------ fit()
Thresholds == 0..(MaxDist - 1)

\* two engines constructed without a pre-seeded cache on graphs 1..n; the
\* first one is operated, the second one only observed
Init ==
    /\ \E n \in 0..MaxGraphs :
        /\ graphs = Iota(n)
        /\ metric \in SymmetricMetrics(n)
        /\ bad \in BadSets(n)
    /\ threshold \in Thresholds
    /\ cls_cache = EmptyCache /\ cls_centroids = <<>>
    /\ cache_own = FALSE /\ inst_cache = EmptyCache
    /\ centroids_own = FALSE /\ inst_centroids = <<>>
    /\ FitIdle /\ EvalIdle /\ PoolIdle /\ MetricIdle

\* a write to the dict self._distances_cache refers to
SetCache(c) ==
    IF cache_own
    THEN inst_cache' = c /\ cls_cache' = cls_cache
    ELSE cls_cache' = c /\ inst_cache' = inst_cache

\* an in-place change (clear, append) of the list self._centroids refers to
MutateCentroids(v) ==
    IF centroids_own
    THEN inst_centroids' = v /\ cls_centroids' = cls_centroids
    ELSE cls_centroids' = v /\ inst_centroids' = inst_centroids

\* what the run that just ended returned, for the run that starts now
LastRun ==
    IF pc = "done"
    THEN [kind |-> "fit", mi |-> max_iter, centroids |-> get_centroids]
    ELSE IF pc = "leader_done"
    THEN [kind |-> "leader", mi |-> 0, centroids |-> get_centroids]
    ELSE NoRun

\* (faulty variant, to test C20: the result list is not cleared)
Cleared_Kept(l) == l

\* self._centroids.clear() (lines 90 and 138)
Cleared(l) == <<>>

\* (faulty variant, to test C13: the outer loop does not test the pool)
PoolEmpty_Never(q) == FALSE

\* the test of the outer loop (line 92), negated: len(s) > 0 is false
PoolEmpty(q) == Len(q) = 0

\* the lists dataset.pickle.load_centroids can return: what was saved there
LoadedLists ==
    UNION {[1..k -> Range(graphs)] : k \in 0..MaxLoaded}

Resting ==
    pc \in {"idle", "done", "failed", "leader_done", "leader_failed",
            "loaded"}

\* fit(max_iter), lines 89-90: copy the collection, clear the result
FitStart(mi) ==
    /\ Resting
    /\ runs < MaxRuns
    /\ runs' = runs + 1
    /\ max_iter' = mi
    /\ s' = graphs
    /\ MutateCentroids(Cleared(get_centroids))
    /\ pc' = "outer"
    /\ prototype' = None /\ cluster' = Cluster /\ iterations' = 0
    /\ removed' = <<>>
    /\ stats' = [medoids |-> 0, evals |-> 0]
    /\ far' = [called |-> FALSE, s |-> <<>>, seed |-> 0, idx |-> 0]
    /\ hist' = [processed |-> <<>>, empty_medoid |-> 0, prev |-> LastRun]
    /\ UNCHANGED <<metricVars, engineVars, cls_cache, cache_own, inst_cache,
                   centroids_own, clusters, evalVars, poolVars>>

\* lines 92-102: the test of the outer loop, the medoid of s, the farthest
\* graph from it, the first candidate cluster
OuterStep ==
    /\ pc = "outer"
    /\ hist' = IF PoolEmpty(s) \/ Len(s) > 0 THEN hist
               ELSE [hist EXCEPT !.empty_medoid = @ + 1]
    /\ IF PoolEmpty(s)
       THEN /\ pc' = "done"
            /\ UNCHANGED <<prototype, cluster, iterations, stats, far,
                           cls_cache, inst_cache>>
       ELSE \E a \in Schedules(Len(s)) :
            LET m == median_graph(Cache, s, a)
                f == farthest(Cache, s, m.idx)
            IN  IF ~m.ok
                THEN /\ pc' = "failed"
                     /\ stats' = [stats EXCEPT !.medoids = @ + 1]
                     /\ UNCHANGED <<prototype, cluster, iterations, far,
                                    cls_cache, inst_cache>>
                ELSE IF ~f.ok
                THEN /\ pc' = "failed"
                     /\ stats' = [medoids |-> stats.medoids + 1,
                                  evals |-> stats.evals + f.evals]
                     /\ SetCache(f.cache)
                     /\ UNCHANGED <<prototype, cluster, iterations, far>>
                ELSE /\ pc' = "inner"
                     /\ stats' = [medoids |-> stats.medoids + 1,
                                  evals |-> stats.evals + f.evals]
                     /\ SetCache(f.cache)
                     /\ far' = [called |-> TRUE, s |-> s, seed |-> m.idx,
                                idx |-> f.idx]
                     /\ prototype' = PyIndex(s, f.idx)
                     /\ cluster' = set_centroid(Cluster, PyIndex(s, f.idx))
                     /\ iterations' = 0
    /\ UNCHANGED <<metricVars, engineVars, cls_centroids, cache_own, centroids_own,
                   inst_centroids, s, max_iter, clusters, runs, removed,
                   evalVars, poolVars>>

\* lines 105-117: admit the graphs of s into the candidate cluster
InnerBuild ==
    /\ pc = "inner"
    /\ LET b == BuildCluster(Cache, s, prototype, cluster)
       IN  /\ pc' = IF b.ok THEN "medoid" ELSE "failed"
           /\ cluster' = b.cluster
           /\ SetCache(b.cache)
           /\ stats' = [stats EXCEPT !.evals = @ + b.evals]
    /\ UNCHANGED <<metricVars, engineVars, cls_centroids, cache_own, centroids_own,
                   inst_centroids, s, prototype, iterations, max_iter,
                   clusters, runs, removed, far, hist, evalVars, poolVars>>

\* lines 119-134: the medoid of the candidate cluster, then either the
\* cluster is final or the loop goes on around the new prototype
InnerDecide ==
    /\ pc = "medoid"
    /\ \E a \in Schedules(Len(get_graphs(cluster))) :
       LET cluster_graphs == get_graphs(cluster)
           m == median_graph(Cache, cluster_graphs, a)
           new_prototype_graph == PyIndex(cluster_graphs, m.idx)
       IN  /\ stats' = [stats EXCEPT !.medoids = @ + 1]
           /\ hist' = IF Len(cluster_graphs) > 0 THEN hist
                      ELSE [hist EXCEPT !.empty_medoid = @ + 1]
           /\ IF ~m.ok
              THEN /\ pc' = "failed"
                   /\ MutateCentroids(get_centroids)
                   /\ UNCHANGED <<s, prototype, cluster, iterations, removed>>
              ELSE IF Finalise(new_prototype_graph, prototype,
                               iterations + 1, max_iter)
              THEN /\ pc' = "outer"
                   /\ iterations' = iterations + 1
                   /\ MutateCentroids(Append(get_centroids, prototype))
                   /\ s' = RemoveMembers(s, cluster_graphs)
                   /\ removed' = Append(removed, cluster_graphs)
                   /\ UNCHANGED <<prototype, cluster>>
              ELSE /\ pc' = "inner"
                   /\ iterations' = iterations + 1
                   /\ prototype' = new_prototype_graph
                   /\ cluster' = set_centroid(Cluster, new_prototype_graph)
                   /\ MutateCentroids(get_centroids)
                   /\ UNCHANGED <<s, removed>>
    /\ UNCHANGED <<metricVars, engineVars, cls_cache, cache_own, inst_cache,
                   centroids_own, max_iter, clusters, runs, far, evalVars,
                   poolVars>>

\* ------------------------------------------------- fit_leader_algorithm()
\* s.pop(i) on a list, i a 0-based index
Pop(q, i) == SubSeq(q, 1, i) \o SubSeq(q, i + 2, Len(q))

\* (faulty variant, to test C19: a graph at exactly the threshold starts a
\* cluster)
Near_Strict(d) == d < threshold

\* the assignment test of line 146: distance <= self._threshold
Near(d) == d <= threshold

\* (faulty variant, to test C12: only the k-th cluster is tried)
FirstFitFrom_FirstOnly(c, g, cls, k, evals) ==
    IF k > Len(cls)
    THEN [ok |-> TRUE, at |-> 0, cache |-> c, evals |-> evals]
    ELSE LET r == optimized_distance(c, g, get_centroid(cls[k]))
         IN  [ok |-> r.ok, at |-> IF r.ok /\ Near(r.val) THEN k ELSE 0,
              cache |-> r.cache, evals |-> evals + 1]

\* "for cluster in clusters" from the k-th cluster on: at = the cluster that
\* takes the graph, 0 when the loop ends without a break
RECURSIVE FirstFitFrom(_, _, _, _, _)
FirstFitFrom(c, g, cls, k, evals) ==
    IF k > Len(cls)
    THEN [ok |-> TRUE, at |-> 0, cache |-> c, evals |-> evals]
    ELSE LET r == optimized_distance(c, g, get_centroid(cls[k]))
         IN  IF ~r.ok
             THEN [ok |-> FALSE, at |-> 0, cache |-> r.cache,
                   evals |-> evals + 1]
             ELSE IF Near(r.val)
             THEN [ok |-> TRUE, at |-> k, cache |-> r.cache,
                   evals |-> evals + 1]
             ELSE FirstFitFrom(r.cache, g, cls, k + 1, evals + 1)

\* "for i in range(len(s)-1, -1, -1)" from index i down (lines 144-152);
\* trace: the graphs processed from here on, in order, each with the cluster
\* that took it (0: it started a new cluster)
RECURSIVE LeaderFrom(_, _, _, _, _)
LeaderFrom(c, q, cls, i, evals) ==
    IF i < 0
    THEN [ok |-> TRUE, clusters |-> cls, cache |-> c, evals |-> evals,
          trace |-> <<>>]
    ELSE LET f == FirstFitFrom(c, PyIndex(q, i), cls, 1, evals)
             rest ==
                IF f.at # 0
                THEN LeaderFrom(f.cache, q,
                                [cls EXCEPT ![f.at] = add_graph(@, PyIndex(q, i))],
                                i - 1, f.evals)
                ELSE LeaderFrom(f.cache, Pop(q, i),
                                Append(cls, set_centroid(Cluster, PyIndex(q, i))),
                                i - 1, f.evals)
         IN  IF ~f.ok
             THEN [ok |-> FALSE, clusters |-> cls, cache |-> f.cache,
                   evals |-> f.evals, trace |-> <<>>]
             ELSE [rest EXCEPT
                    !.trace = <<[g |-> PyIndex(q, i), at |-> f.at]>> \o @]

\* (faulty variant, to test C11: s.pop() takes the last graph as the first
\* centroid)
LeaderRun_PopLast(c, q) ==
    IF Len(q) = 0
    THEN [ok |-> FALSE, clusters |-> <<Cluster>>, cache |-> c, evals |-> 0,
          trace |-> <<>>]
    ELSE LeaderFrom(c, Pop(q, Len(q) - 1),
                    <<set_centroid(Cluster, q[Len(q)])>>, Len(q) - 2, 0)

\* lines 137-154 on the collection q; s.pop(0) of an empty list raises
LeaderRun(c, q) ==
    IF Len(q) = 0
    THEN [ok |-> FALSE, clusters |-> <<Cluster>>, cache |-> c, evals |-> 0,
          trace |-> <<>>]
    ELSE LeaderFrom(c, Pop(q, 0), <<set_centroid(Cluster, q[1])>>,
                    Len(q) - 2, 0)

\* fit_leader_algorithm(): the result list is cleared in place first, and a
\* completed run binds self._centroids to a new list
FitLeader ==
    /\ Resting
    /\ runs < MaxRuns
    /\ runs' = runs + 1
    /\ LET l == LeaderRun(Cache, graphs)
       IN  /\ clusters' = l.clusters
           /\ SetCache(l.cache)
           /\ stats' = [medoids |-> 0, evals |-> l.evals]
           /\ IF l.ok
              THEN /\ pc' = "leader_done"
                   /\ centroids_own' = TRUE
                   /\ inst_centroids' =
                        [k \in 1..Len(l.clusters) |-> get_centroid(l.clusters[k])]
                   /\ cls_centroids' =
                        IF centroids_own THEN cls_centroids
                        ELSE Cleared(cls_centroids)
              ELSE /\ pc' = "leader_failed"
                   /\ centroids_own' = centroids_own
                   /\ MutateCentroids(Cleared(get_centroids))
           /\ hist' = [processed |-> l.trace, empty_medoid |-> 0,
                       prev |-> LastRun]
    /\ removed' = <<>>
    /\ far' = [called |-> FALSE, s |-> <<>>, seed |-> 0, idx |-> 0]
    /\ UNCHANGED <<metricVars, engineVars, cache_own, s, prototype, cluster, iterations,
                   max_iter, evalVars, poolVars>>

\* load_centroids(dir_path, filename) (lines 168-173): self._centroids is
\* bound to the list read, whatever it referred to before
LoadCentroids(l) ==
    /\ Resting
    /\ pc' = "loaded"
    /\ centroids_own' = TRUE
    /\ inst_centroids' = l
    /\ UNCHANGED <<metricVars, engineVars, cls_cache, cls_centroids, cache_own,
                   inst_cache, s, prototype, cluster, iterations, max_iter,
                   clusters, runs, removed, stats, far, hist, evalVars,
                   poolVars>>

Next ==
    \/ \E mi \in 0..MaxIter : FitStart(mi)
    \/ OuterStep
    \/ InnerBuild
    \/ InnerDecide
    \/ FitLeader
    \/ \E l \in LoadedLists : LoadCentroids(l)

Spec == Init /\ [][Next]_vars

\* ------------------------------------ median_graph(): the worker pool at work
\* (faulty variant, to test C10: a pool of threads sharing the engine's memory)
PoolKind_Thread == "thread"

\* pool.Pool() of multiprocess is a pool of processes: a worker runs its
\* tasks one after the other on its own copy of the engine's memory
PoolKind == "process"

\* the caches an engine can hold after evaluations of its own: both orderings
\* of every pair of E, with the metric's value
CacheOf(E) ==
    [k \in Pairs(MaxGraphs) |->
        IF k \in E \/ <<k[2], k[1]>> \in E THEN metric[k] ELSE Absent]

Pending == [ok |-> FALSE, i |-> -1, sum |-> 0, by |-> 0]

\* an engine about to call median_graph(s) on its collection
InitPool ==
    /\ \E n \in 0..MaxGraphs :
        /\ graphs = Iota(n)
        /\ metric \in SymmetricMetrics(n)
        /\ bad \in RaisesByCount(n) \cup {{<<1, 2>>, <<2, 1>>} \cap Pairs(n)}
        /\ \E E \in SUBSET UPairs(n) : cls_cache = CacheOf(E)
    /\ threshold = 1
    /\ cls_centroids = <<>>
    /\ cache_own = FALSE /\ inst_cache = EmptyCache
    /\ centroids_own = FALSE /\ inst_centroids = <<>>
    /\ FitIdle /\ EvalIdle /\ PoolIdle /\ MetricIdle

\* line 61-63: the pool starts, every worker with a copy of the cache, and
\* one task per index is queued
InQueue == 0
PoolOpen ==
    /\ ppc = "closed"
    /\ ppc' = "open"
    /\ pool_s' = graphs
    /\ wcache' = [w \in 1..NWorkers |-> Cache]
    /\ results' = [i \in 0..(Len(graphs) - 1) |-> Pending]
    /\ taken' = [i \in 0..(Len(graphs) - 1) |-> InQueue]
    /\ UNCHANGED <<metricVars, engineVars, heapVars, fitVars, evalVars, pool_result>>

\* worker w has no task in hand
IdleWorker(w) ==
    \A j \in DOMAIN taken : taken[j] = w => results[j] # Pending

\* an idle worker w takes the task at the head of the queue: the tasks leave
\* the queue in index order
WorkerTake(w, i) ==
    /\ ppc = "open"
    /\ taken[i] = InQueue
    /\ \A j \in 0..(i - 1) : taken[j] # InQueue
    /\ IdleWorker(w)
    /\ taken' = [taken EXCEPT ![i] = w]
    /\ UNCHANGED <<metricVars, engineVars, heapVars, fitVars, evalVars, ppc,
                   pool_s, wcache, results, pool_result>>

\* worker w ends the task it has in hand, calculate_distance((i, s)); the
\* tasks of different workers end in any order
WorkerRun(w, i) ==
    /\ ppc = "open"
    /\ taken[i] = w
    /\ results[i] = Pending
    /\ LET r == calculate_distance(
                    IF PoolKind = "process" THEN wcache[w] ELSE Cache, i, pool_s)
       IN  /\ results' = [results EXCEPT
                            ![i] = [ok |-> r.ok, i |-> r.i, sum |-> r.sum,
                                    by |-> w]]
           /\ IF PoolKind = "process"
              THEN /\ wcache' = [wcache EXCEPT ![w] = r.cache]
                   /\ UNCHANGED <<cls_cache, inst_cache>>
              ELSE /\ SetCache(r.cache)
                   /\ UNCHANGED wcache
    /\ UNCHANGED <<metricVars, engineVars, cls_centroids, cache_own, centroids_own,
                   inst_centroids, fitVars, evalVars, ppc, pool_s,
                   pool_result, taken>>

\* executor.map returns when every task has ended, the pool is torn down
\* and min() picks the index (lines 63-67)
PoolJoin ==
    /\ ppc = "open"
    /\ \A i \in DOMAIN results : results[i] # Pending
    /\ LET n == Len(pool_s)
       IN  IF n = 0 \/ \E i \in DOMAIN results : ~results[i].ok
           THEN ppc' = "failed" /\ pool_result' = pool_result
           ELSE /\ ppc' = "joined"
                /\ pool_result' =
                     MinBySum([i \in 0..(n - 1) |-> results[i].sum], n)
    /\ wcache' = [w \in 1..NWorkers |-> EmptyCache]
    /\ UNCHANGED <<metricVars, engineVars, heapVars, fitVars, evalVars, pool_s, results,
                   taken>>

NextPool ==
    \/ PoolOpen
    \/ \E w \in 1..NWorkers : \E i \in DOMAIN results : WorkerTake(w, i)
    \/ \E w \in 1..NWorkers : \E i \in DOMAIN results : WorkerRun(w, i)
    \/ PoolJoin

SpecPool == InitPool /\ [][NextPool]_vars

\* ------------------------------------------------------ the metric functions
\* (graph/distances.py; a Graph is a sequence of vertices (x, y, z,
\* confidence), indexed from 0, and a set of edges (u, v) between indices)

\* the vertex tuples the graphs are drawn from: every difference of two
\* positions has an integral length
Points == {<<0, 0, 0, 1>>, <<3, 4, 0, 1>>, <<3, 4, 0, 0>>}

\* the edges a graph of nv vertices can have
EdgesOver(nv) == {e \in (0..(nv - 1)) \X (0..(nv - 1)) : e[1] < e[2]}

GraphsOf(nv) ==
    {[vertexes |-> vs, edges |-> es] :
        vs \in [1..nv -> Points], es \in SUBSET EdgesOver(nv)}

AllGraphs == UNION {GraphsOf(nv) : nv \in 0..MaxVerts}

\* Graph.vertexes_count, Graph.get_edges(), Graph.get_vertex(v); get_vertex
\* of an index the graph does not have raises
vertexes_count(g) == Len(g.vertexes)
get_edges(g) == g.edges
has_vertex(g, v) == v \in 0..(Len(g.vertexes) - 1)
get_vertex(g, v) == g.vertexes[v + 1]

\* outcomes of a call: an exception, a number, or the float nan
Raised == [kind |-> "error", val |-> 0]
Number(x) == [kind |-> "number", val |-> x]
NaN == [kind |-> "nan", val |-> 0]

\* math.pow(x, 2) and math.sqrt on the radicands that occur
RECURSIVE pow(_, _)
pow(x, y) == IF y = 0 THEN 1 ELSE x * pow(x, y - 1)
sqrt(n) == CHOOSE r \in 0..n : r * r = n

\* (faulty variant, to test C16: the difference is taken signed)
abs_Signed(x) == x

\* the builtin abs (line 61)
abs(x) == IF x < 0 THEN -x ELSE x

\* the sum of f over the finite set S
RECURSIVE SumOver(_, _)
SumOver(S, f) ==
    IF S = {} THEN 0
    ELSE LET x == CHOOSE y \in S : TRUE IN f[x] + SumOver(S \ {x}, f)

\* lines 17-18: the displacement from vertex u to vertex v in g
Displacement(g, u, v) ==
    [k \in 1..3 |-> get_vertex(g, v)[k] - get_vertex(g, u)[k]]
dot(a, b) == a[1] * b[1] + a[2] * b[2] + a[3] * b[3]
\* the square of numpy.linalg.norm
norm2(a) == dot(a, a)

\* cosine_score (lines 7-23): the edges are graph1's; the quotient of line 21
\* is a numpy scalar division, which on 0/0 warns and gives nan; the value of
\* a numeric score is kept as the terms (dot, |v1|^2, |v2|^2) of its edges
cosine_score(a, b) ==
    LET edges == get_edges(a)
    IN  IF \E e \in edges :
              \/ ~has_vertex(a, e[1]) \/ ~has_vertex(a, e[2])
              \/ ~has_vertex(b, e[1]) \/ ~has_vertex(b, e[2])
        THEN Raised
        ELSE IF \E e \in edges :
              \/ norm2(Displacement(a, e[1], e[2])) = 0
              \/ norm2(Displacement(b, e[1], e[2])) = 0
        THEN NaN
        ELSE Number({<<e, dot(Displacement(a, e[1], e[2]),
                              Displacement(b, e[1], e[2])),
                       norm2(Displacement(a, e[1], e[2])),
                       norm2(Displacement(b, e[1], e[2]))>> : e \in edges})

\* euclidean_distance (lines 26-39): the vertex count is graph1's
euclidean_distance(a, b) ==
    LET n_vertexes == vertexes_count(a)
        V == 0..(n_vertexes - 1)
    IN  IF \E v \in V : ~has_vertex(b, v)
        THEN Raised
        ELSE Number(SumOver(V, [v \in V |->
                sqrt(pow(get_vertex(a, v)[1] - get_vertex(b, v)[1], 2)
                     + pow(get_vertex(a, v)[2] - get_vertex(b, v)[2], 2)
                     + pow(get_vertex(a, v)[3] - get_vertex(b, v)[3], 2))]))

\* manhattan_distance (lines 50-63)
manhattan_distance(a, b) ==
    LET n_vertexes == vertexes_count(a)
        V == 0..(n_vertexes - 1)
    IN  IF \E v \in V : ~has_vertex(b, v)
        THEN Raised
        ELSE Number(SumOver(V, [v \in V |->
                abs(get_vertex(a, v)[1] - get_vertex(b, v)[1])
                + abs(get_vertex(a, v)[2] - get_vertex(b, v)[2])
                + abs(get_vertex(a, v)[3] - get_vertex(b, v)[3])]))

\* weighted_distance (lines 42-47), k = 0.5: cosine_score first, then
\* euclidean_distance; nan plus a number is nan; the value of a numeric score
\* is kept as the cosine score and the euclidean distance k multiplies
weighted_distance(a, b) ==
    LET c == cosine_score(a, b)
        e == euclidean_distance(a, b)
    IN  IF c.kind = "error" \/ e.kind = "error" THEN Raised
        ELSE IF c.kind = "nan" THEN NaN
        ELSE Number([cosine |-> c.val, euclidean |-> e.val])

MetricNames == {"cosine_score", "euclidean_distance", "manhattan_distance",
                "weighted_distance"}

InitMetric ==
    /\ graph1 \in AllGraphs /\ graph2 \in AllGraphs
    /\ score = [fn |-> "none", kind |-> "none", val |-> 0]
    /\ graphs = <<>> /\ threshold = 0
    /\ metric \in SymmetricMetrics(0) /\ bad = {}
    /\ cls_cache = EmptyCache /\ cls_centroids = <<>>
    /\ cache_own = FALSE /\ inst_cache = EmptyCache
    /\ centroids_own = FALSE /\ inst_centroids = <<>>
    /\ FitIdle /\ EvalIdle /\ PoolIdle

\* what a call of fn leaves: the function called and its outcome
Outcome(fn, r) == [fn |-> fn, kind |-> r.kind, val |-> r.val]

\* one call of each function on (graph1, graph2)
CallCosine ==
    /\ score' = Outcome("cosine_score", cosine_score(graph1, graph2))
    /\ UNCHANGED <<graph1, graph2, engineVars, heapVars, fitVars, evalVars,
                   poolVars>>

CallEuclidean ==
    /\ score' = Outcome("euclidean_distance",
                        euclidean_distance(graph1, graph2))
    /\ UNCHANGED <<graph1, graph2, engineVars, heapVars, fitVars, evalVars,
                   poolVars>>

CallManhattan ==
    /\ score' = Outcome("manhattan_distance",
                        manhattan_distance(graph1, graph2))
    /\ UNCHANGED <<graph1, graph2, engineVars, heapVars, fitVars, evalVars,
                   poolVars>>

CallWeighted ==
    /\ score' = Outcome("weighted_distance", weighted_distance(graph1, graph2))
    /\ UNCHANGED <<graph1, graph2, engineVars, heapVars, fitVars, evalVars,
                   poolVars>>

NextMetric ==
    \/ CallCosine
    \/ CallEuclidean
    \/ CallManhattan
    \/ CallWeighted

SpecMetric == InitMetric /\ [][NextMetric]_vars

\* ================================================================== claims
InputSet == Range(graphs)

\* the clusters removed so far that hold graph g
ClustersOf(g) == {k \in 1..Len(removed) : g \in Range(removed[k])}

\* C1: when fit() completes, the clusters removed from the working pool
\* partition the input: every input graph is in exactly one removed cluster,
\* once, and the clusters hold input graphs only.
C1_Partition ==
    pc = "done" =>
        /\ \A g \in InputSet : Cardinality(ClustersOf(g)) = 1
        /\ \A k \in 1..Len(removed) :
            /\ Range(removed[k]) \subseteq InputSet
            /\ Cardinality(Range(removed[k])) = Len(removed[k])

C1_Witness ==
    /\ pc = "done" /\ Len(graphs) = 3 /\ Len(removed) = 2
    /\ \E k \in 1..Len(removed) : Len(removed[k]) = 2

\* "within the threshold" under the wrapped metric
Within(a, b) == metric[<<a, b>>] <= threshold
Group(a) == {b \in InputSet : Within(a, b)}
\* the input splits into groups: mutually within the threshold inside a
\* group, farther apart than the threshold across groups
WellSeparated ==
    \A a, b, c \in InputSet : (Within(a, b) /\ Within(b, c)) => Within(a, c)

\* C2: on a well-separated input a completed fit() yields one centroid per
\* group, each centroid in its group, and the cluster removed with a centroid
\* is exactly the group of that centroid.
C2_GroupsRecovered ==
    (pc = "done" /\ WellSeparated) =>
        /\ Len(get_centroids) = Cardinality({Group(a) : a \in InputSet})
        /\ Len(removed) = Len(get_centroids)
        /\ \A k \in 1..Len(removed) :
            /\ get_centroids[k] \in Range(removed[k])
            /\ Range(removed[k]) = Group(get_centroids[k])

C2_Witness ==
    /\ pc = "done" /\ WellSeparated /\ Len(graphs) = 3
    /\ Len(get_centroids) = 2
    /\ \E a, b \in InputSet : a # b /\ Within(a, b) /\ metric[<<a, b>>] > 0

\* the index maximizing metric(q[seed], q[i]), the first one on a tie
ArgMaxFirst(q, seed) ==
    CHOOSE i \in 0..(Len(q) - 1) :
        /\ \A j \in 0..(Len(q) - 1) :
            metric[<<PyIndex(q, seed), PyIndex(q, i)>>]
                >= metric[<<PyIndex(q, seed), PyIndex(q, j)>>]
        /\ \A j \in 0..(i - 1) :
            metric[<<PyIndex(q, seed), PyIndex(q, j)>>]
                < metric[<<PyIndex(q, seed), PyIndex(q, i)>>]

\* C3: farthest(s, seed) returns the index maximizing distance(s[seed], s[i]),
\* the first such index on a tie.
C3_FarthestIsArgMax ==
    far.called => far.idx = ArgMaxFirst(far.s, far.seed)

\* C7: operations on one engine leave get_centroids() and the distance cache
\* of another engine, constructed without a pre-seeded cache, unchanged.
C7_PerInstanceState ==
    [][other_get_centroids' = other_get_centroids /\ other_cache' = other_cache]_vars

\* C8: after a failed distance evaluation aborts fit(), get_centroids() does
\* not expose centroids of the partially completed run.
C8_NoPartialResult ==
    pc = "failed" => get_centroids = <<>>

Max(a, b) == IF a >= b THEN a ELSE b

Running == pc \in {"outer", "inner", "medoid"}

\* the inner iterations fit() may still make around the current pool
Allowance == Max(1, max_iter)

\* the position inside one outer iteration, counted down: the loop test, then
\* for each inner iteration the cluster building and the medoid test
Phase ==
    IF pc = "outer" THEN 2 * Allowance + 2
    ELSE IF pc = "inner" THEN 2 * (Allowance - iterations) + 1
    ELSE 2 * (Allowance - iterations)

\* the pool size first, the position second
Variant == Len(s) * (2 * Allowance + 3) + Phase

\* C9: fit() terminates with the working pool empty: every step of a running
\* fit() that does not end the run strictly decreases a natural-valued
\* variant (pool size, then inner iterations left), a completed run has an
\* empty pool, every finalised cluster takes at least one graph out of the
\* pool, an inner loop makes at most max(1, max_iter) iterations, and on an
\* empty input the run ends with zero centroids and no medoid or distance
\* evaluation.
C9_Termination ==
    /\ [][(Running /\ Running') => (Variant' < Variant /\ Variant' >= 0)]_vars
    /\ [](pc = "done" => s = <<>>)
    /\ [][(pc = "medoid" /\ pc' = "outer") => Len(s') < Len(s)]_vars
    /\ [](iterations <= Allowance)
    /\ []((pc = "done" /\ graphs = <<>>) =>
            (get_centroids = <<>> /\ stats = [medoids |-> 0, evals |-> 0]))

C9_Witness ==
    /\ pc = "done" /\ s = <<>> /\ Len(graphs) = 3 /\ Len(removed) >= 1
    /\ iterations = 2 /\ max_iter = 2

\* the value(s) cache c holds for the unordered pair {a, b}
Stored(c, a, b) ==
    {c[k] : k \in {k \in {<<a, b>>, <<b, a>>} : Has(c, k)}}

\* C5: after an evaluator call for (A, B), from any cache state, the cache
\* holds one value under both (A, B) and (B, A), and a later call for the
\* pair in either order returns the value of the first call without invoking
\* the wrapped metric.  (A step of the evaluator leaves its arguments in ret.)
C5_CacheCorrectOnWrite ==
    [][LET a == ret'.g1
           b == ret'.g2
       IN  /\ ret'.ok =>
                /\ Has(Cache', <<a, b>>) /\ Has(Cache', <<b, a>>)
                /\ Cache'[<<a, b>>] = ret'.val /\ Cache'[<<b, a>>] = ret'.val
           /\ Has(seen, Unordered(a, b)) =>
                (ret'.ok /\ ret'.val = seen[Unordered(a, b)]
                 /\ calls' = calls)]_vars

\* C6: with any pre-seeded cache, a call for two graphs whose pair the cache
\* holds under either ordering is a hit: it returns the stored value and does
\* not invoke the wrapped metric.
C6_UnorderedKey ==
    [][LET a == ret'.g1
           b == ret'.g2
       IN  Stored(Cache, a, b) # {} =>
                (ret'.ok /\ calls' = calls
                 /\ ret'.val \in Stored(Cache, a, b))]_vars

\* sum over j # i of metric(q[i], q[j]), j from index j on
RECURSIVE SumFrom(_, _, _)
SumFrom(q, i, j) ==
    IF j >= Len(q) THEN 0
    ELSE (IF j = i THEN 0 ELSE metric[<<PyIndex(q, i), PyIndex(q, j)>>])
         + SumFrom(q, i, j + 1)
TotalDistance(q, i) == SumFrom(q, i, 0)

\* C4: median_graph(s) returns an index whose total distance to the other
\* elements is minimal, whatever worker ran which task and in whatever order
\* the tasks ended (it is the first such index); on a singleton it returns
\* index 0 with total distance 0.
C4_Medoid ==
    ppc = "joined" =>
        /\ pool_result \in 0..(Len(pool_s) - 1)
        /\ \A j \in 0..(Len(pool_s) - 1) :
            TotalDistance(pool_s, pool_result) <= TotalDistance(pool_s, j)
        /\ results[pool_result].sum = TotalDistance(pool_s, pool_result)
        /\ \A j \in 0..(pool_result - 1) :
            TotalDistance(pool_s, j) > TotalDistance(pool_s, pool_result)
        /\ Len(pool_s) = 1 => (pool_result = 0 /\ results[0].sum = 0)

C4_Witness ==
    /\ ppc = "joined" /\ Len(pool_s) = 3
    /\ pool_result = 1
    /\ results[0].by # results[1].by
    /\ \E j \in 0..2 :
        TotalDistance(pool_s, j) > TotalDistance(pool_s, pool_result)

\* C10: a worker task only produces its (index, sum) result: it never writes
\* the engine's distance cache, and what it memoizes goes to the copy of the
\* process that runs it, so two tasks never write one cache concurrently.
C10_WorkersDoNotWriteCache ==
    [][(ppc = "open" /\ ppc' = "open") =>
        /\ Cache' = Cache
        /\ \/ results' = results /\ wcache' = wcache
           \/ \E i \in DOMAIN results :
                /\ results[i] = Pending /\ results'[i] # Pending
                /\ \A j \in DOMAIN results \ {i} : results'[j] = results[j]
                /\ \A w \in 1..NWorkers :
                    w # results'[i].by => wcache'[w] = wcache[w]]_vars

C10_Witness ==
    /\ ppc = "open"
    /\ \E w \in 1..NWorkers : wcache[w] # Cache
    /\ \E i, j \in DOMAIN results :
        /\ results[i] # Pending /\ results[j] # Pending
        /\ results[i].by # results[j].by

\* ---------------------------------------------------------------- C11
\* the centroids of the clusters the leader algorithm built, in creation order
LeaderCentroids == [k \in 1..Len(clusters) |-> get_centroid(clusters[k])]

\* C11: a completed fit_leader_algorithm() on n >= 1 graphs has built between
\* 1 and n clusters, and the first input graph is the centroid of the first
\* cluster (and the first centroid get_centroids() returns).
C11_LeaderBound ==
    pc = "leader_done" =>
        /\ Len(graphs) >= 1
        /\ Len(clusters) \in 1..Len(graphs)
        /\ get_centroid(clusters[1]) = graphs[1]
        /\ get_centroids = LeaderCentroids

\* a completed run on three graphs that built two clusters
C11_Witness ==
    pc = "leader_done" /\ Len(graphs) = 3 /\ Len(clusters) = 2

\* ---------------------------------------------------------------- C12
\* the centroids that exist when the leader algorithm processes its k-th
\* graph: the first input graph, then every earlier graph no cluster took
RECURSIVE CentroidsBefore(_)
CentroidsBefore(k) ==
    IF k <= 1 THEN <<graphs[1]>>
    ELSE IF hist.processed[k - 1].at = 0
    THEN Append(CentroidsBefore(k - 1), hist.processed[k - 1].g)
    ELSE CentroidsBefore(k - 1)

\* the clusters, by creation order, whose centroid is within the threshold
\* of the k-th processed graph
FitsOf(k) ==
    {j \in 1..Len(CentroidsBefore(k)) :
        Within(hist.processed[k].g, CentroidsBefore(k)[j])}

\* C12: a completed fit_leader_algorithm() processed every graph but the
\* first exactly once, in reverse input order; each went to the first cluster
\* (in creation order) whose centroid is within the threshold (<=), and
\* started a new cluster, appended last, exactly when no centroid was; the
\* clusters returned hold exactly these centroids and these members.
C12_LeaderFirstFit ==
    pc = "leader_done" =>
        LET n == Len(graphs)
            tr == hist.processed
        IN  /\ Len(tr) = n - 1
            /\ \A k \in 1..(n - 1) :
                /\ tr[k].g = graphs[n + 1 - k]
                /\ (tr[k].at = 0) <=> (FitsOf(k) = {})
                /\ tr[k].at # 0 =>
                      /\ tr[k].at \in FitsOf(k)
                      /\ \A j \in FitsOf(k) : tr[k].at <= j
            /\ LeaderCentroids = CentroidsBefore(n)
            /\ \A j \in 1..Len(clusters) :
                  Range(get_graphs(clusters[j])) =
                      {get_centroid(clusters[j])}
                          \cup {tr[k].g : k \in {i \in 1..(n - 1) : tr[i].at = j}}

\* graphs [X, Y, Z]: Z is far from X and starts the second cluster; Y is
\* within the threshold of both centroids and joins the first cluster
C12_Witness ==
    /\ pc = "leader_done" /\ Len(graphs) = 3
    /\ ~Within(3, 1) /\ Within(2, 1) /\ Within(2, 3)
    /\ hist.processed = <<[g |-> 3, at |-> 0], [g |-> 2, at |-> 1]>>
    /\ Len(clusters) = 2

\* ---------------------------------------------------------------- C13
\* C13: median_graph() on an empty list ends in an error, and fit() never
\* calls it on one: neither on the working pool (the outer loop runs only
\* while the pool is non-empty) nor on the members of a cluster (a cluster
\* always holds its prototype).
C13_MedianNeverOnEmpty ==
    /\ \A a \in Schedules(0) : ~median_graph(Cache, <<>>, a).ok
    /\ hist.empty_medoid = 0
    /\ pc = "medoid" => Len(get_graphs(cluster)) >= 1

\* a completed fit() that took the medoid of pools of 3, 2 and 1 graphs and
\* of three one-member clusters
C13_Witness ==
    /\ pc = "done" /\ Len(graphs) = 3 /\ Len(removed) = 3
    /\ stats.medoids = 6

\* ---------------------------------------------------------------- C14
\* the spec's topology: same vertex count and same edge set
SameTopology(a, b) ==
    vertexes_count(a) = vertexes_count(b) /\ get_edges(a) = get_edges(b)

\* C14: a call of any of the four metric functions on two graphs whose
\* vertex counts or edge sets differ ends in an error, in either argument
\* order; it never returns a score.
C14_TopologyMismatchFatal ==
    (score.fn \in MetricNames /\ ~SameTopology(graph1, graph2))
        => score.kind = "error"

\* ---------------------------------------------------------------- C15
\* some edge of g joins two vertices at the same position
Degenerate(g) ==
    \E e \in get_edges(g) : norm2(Displacement(g, e[1], e[2])) = 0

\* C15: on two graphs of the same topology, one of which has an edge of
\* zero length, cosine_score and weighted_distance end in an error; they do
\* not return a score, numeric or substitute.
C15_DegenerateFatal ==
    (/\ score.fn \in {"cosine_score", "weighted_distance"}
     /\ SameTopology(graph1, graph2)
     /\ Degenerate(graph1) \/ Degenerate(graph2))
        => score.kind = "error"

\* ---------------------------------------------------------------- C16
\* the position (x, y, z) of vertex v of g, the confidence left out
Position(g, v) == <<get_vertex(g, v)[1], get_vertex(g, v)[2],
                    get_vertex(g, v)[3]>>

SamePositions(a, b) ==
    \A v \in 0..(vertexes_count(a) - 1) : Position(a, v) = Position(b, v)

\* scenario A: one vertex each, the two positions differ by (3, 4, 0)
ScenarioA ==
    /\ vertexes_count(graph1) = 1 /\ vertexes_count(graph2) = 1
    /\ \/ Position(graph2, 0) = <<Position(graph1, 0)[1] + 3,
                                  Position(graph1, 0)[2] + 4,
                                  Position(graph1, 0)[3]>>
       \/ Position(graph1, 0) = <<Position(graph2, 0)[1] + 3,
                                  Position(graph2, 0)[2] + 4,
                                  Position(graph2, 0)[3]>>

\* the same function on the arguments in the other order
Swapped ==
    IF score.fn = "euclidean_distance"
    THEN euclidean_distance(graph2, graph1)
    ELSE manhattan_distance(graph2, graph1)

\* C16: on two graphs of the same topology euclidean_distance and
\* manhattan_distance return a number that is the same in both argument
\* orders, is not negative, is 0 when the positions (x, y, z; the confidence
\* does not count) are the same, and in scenario A is 5 and 7.
C16_MetricSymmetry ==
    (/\ score.fn \in {"euclidean_distance", "manhattan_distance"}
     /\ SameTopology(graph1, graph2))
        => /\ score.kind = "number"
           /\ Swapped.kind = "number" /\ score.val = Swapped.val
           /\ score.val >= 0
           /\ SamePositions(graph1, graph2) => score.val = 0
           /\ ScenarioA =>
                score.val = IF score.fn = "euclidean_distance" THEN 5 ELSE 7

\* manhattan_distance has returned 7 on scenario A, the two vertices
\* differing in confidence too
C16_Witness ==
    /\ score.fn = "manhattan_distance" /\ score.kind = "number"
    /\ ScenarioA /\ score.val = 7
    /\ get_vertex(graph1, 0)[4] # get_vertex(graph2, 0)[4]

\* ---------------------------------------------------------------- C17
\* any two graphs of the sequence q are within the threshold of each other
PairwiseWithin(q) == \A a, b \in Range(q) : Within(a, b)

\* C17: admission to a candidate cluster of fit() is complete-link. After
\* every admission pass, and in every cluster removed from the pool, any two
\* members (the prototype among them) are within the threshold of each other,
\* and each member is within the threshold of every member admitted before
\* it; when a pass starts, the candidate cluster holds its prototype only.
C17_CompleteLink ==
    /\ pc = "inner" => get_graphs(cluster) = <<prototype>>
    /\ pc = "medoid" =>
          /\ get_graphs(cluster)[1] = prototype
          /\ PairwiseWithin(get_graphs(cluster))
          /\ \A k \in 1..Len(get_graphs(cluster)) : \A j \in 1..(k - 1) :
                metric[<<get_graphs(cluster)[k], get_graphs(cluster)[j]>>]
                    <= threshold
    /\ \A k \in 1..Len(removed) : PairwiseWithin(removed[k])

\* after an admission pass the cluster has two members, and a third graph,
\* within the threshold of the prototype but not of the other member, is
\* left out
C17_Witness ==
    /\ pc = "medoid" /\ Len(get_graphs(cluster)) = 2
    /\ \E g \in Range(s) \ Range(get_graphs(cluster)) :
          /\ Within(g, prototype)
          /\ ~Within(g, get_graphs(cluster)[2])

\* ---------------------------------------------------------------- C18
\* the first index of q whose total distance to the others is minimal
MedoidIndex(q) ==
    CHOOSE i \in 0..(Len(q) - 1) :
        \A j \in 0..(Len(q) - 1) :
            \/ TotalDistance(q, i) < TotalDistance(q, j)
            \/ TotalDistance(q, i) = TotalDistance(q, j) /\ i <= j

\* the step of fit() that follows an admission pass and does not fail
Decided == pc = "medoid" /\ pc' \in {"outer", "inner"}

\* C18: after an admission pass the candidate cluster is final exactly when
\* the medoid of its members is the current prototype or the iteration count
\* has reached max_iter. The centroid appended is then the current
\* prototype, which is a member of the cluster, also when the medoid is
\* another graph, and exactly the members of the cluster leave the pool;
\* otherwise neither the result nor the pool changes.
C18_Finalisation ==
    [][Decided =>
        LET q == get_graphs(cluster)
            medoid == PyIndex(q, MedoidIndex(q))
        IN  /\ (pc' = "outer") <=>
                  (medoid = prototype \/ iterations' >= max_iter)
            /\ pc' = "outer" =>
                  /\ get_centroids' = Append(get_centroids, prototype)
                  /\ prototype \in Range(q)
                  /\ Range(s) \ Range(s') = Range(q)
                  /\ s' = SelectSeq(s, LAMBDA g : g \notin Range(q))
            /\ pc' = "inner" =>
                  /\ get_centroids' = get_centroids /\ s' = s
                  /\ prototype' = medoid]_vars

\* a cluster of three was just made final by the iteration bound: its medoid
\* is not the prototype, and the prototype is the centroid appended
C18_Witness ==
    /\ pc = "outer" /\ removed # <<>>
    /\ removed[Len(removed)] = get_graphs(cluster)
    /\ Len(get_graphs(cluster)) = 3
    /\ PyIndex(get_graphs(cluster), MedoidIndex(get_graphs(cluster)))
          # prototype
    /\ iterations = max_iter
    /\ get_centroids # <<>>
    /\ get_centroids[Len(get_centroids)] = prototype

\* ---------------------------------------------------------------- C19
\* the clusters of the leader algorithm that hold graph g
LeaderClustersOf(g) ==
    {k \in 1..Len(clusters) : g \in Range(get_graphs(clusters[k]))}

\* how many times g occurs in the sequence q
Occurrences(q, g) == Cardinality({i \in 1..Len(q) : q[i] = g})

\* C19: after a completed fit_leader_algorithm() any two distinct centroids
\* returned by get_centroids() are farther apart than the threshold, and every
\* input graph is in exactly one cluster, once, as its centroid or as a member
\* within the threshold of its centroid; the clusters hold input graphs only.
C19_LeaderSeparated ==
    pc = "leader_done" =>
        /\ \A i, j \in 1..Len(get_centroids) :
              i # j => metric[<<get_centroids[i], get_centroids[j]>>] > threshold
        /\ \A g \in InputSet :
              /\ Cardinality(LeaderClustersOf(g)) = 1
              /\ \A k \in LeaderClustersOf(g) :
                    /\ Occurrences(get_graphs(clusters[k]), g) = 1
                    /\ Within(g, get_centroid(clusters[k]))
        /\ \A k \in 1..Len(clusters) :
              Range(get_graphs(clusters[k])) \subseteq InputSet

\* three graphs, three centroids: every pair is farther apart than the
\* threshold, one pair by exactly one more than the threshold
C19_Witness ==
    /\ pc = "leader_done" /\ Len(get_centroids) = 3
    /\ \E a, b \in InputSet : a # b /\ metric[<<a, b>>] = threshold + 1

\* ---------------------------------------------------------------- C20
\* C20: runs can be repeated. The collection handed to the engine is never
\* changed by a run (the runs work on a copy); a run resets the result
\* first, so during and after a fit() the result holds one centroid per
\* cluster removed in this run, taken from that cluster, and after a
\* fit_leader_algorithm() exactly the centroids of its clusters (none when it
\* failed); a completed
\* fit() that follows a completed fit() with the same max_iter returns the
\* same list of centroids.
C20_RerunIdempotent ==
    /\ graphs = Iota(Len(graphs))
    /\ pc \in {"outer", "inner", "medoid", "done", "failed"} =>
          /\ Len(get_centroids) = Len(removed)
          /\ \A k \in 1..Len(removed) : get_centroids[k] \in Range(removed[k])
    /\ pc = "leader_done" =>
          /\ Len(get_centroids) = Len(clusters)
          /\ \A k \in 1..Len(clusters) :
                get_centroids[k] = get_centroid(clusters[k])
    /\ pc = "leader_failed" => get_centroids = <<>>
    /\ (pc = "done" /\ hist.prev.kind = "fit" /\ hist.prev.mi = max_iter) =>
          get_centroids = hist.prev.centroids

\* a second fit() in a row, with the same max_iter, has completed on three
\* graphs and returned two centroids
C20_Witness ==
    /\ pc = "done" /\ runs = 2 /\ Len(graphs) = 3
    /\ hist.prev.kind = "fit" /\ hist.prev.mi = max_iter
    /\ Len(hist.prev.centroids) = 2
    /\ Len(get_centroids) = 2
====
